---- MODULE Spec2Model ----
(***************************************************************************)
(* Model of src/generate_alerts.py: the alert SQL generator.               *)
(*                                                                         *)
(* Text is a sequence of tokens.  A token is either one character of a     *)
(* configured value ("'", "{", "}"), an opaque run of ordinary characters  *)
(* ("x", "catalog", "sec", ...), the newline "\n", or one fixed piece of   *)
(* the statement template of generate_alert_sql.  A mapping (a Python      *)
(* dict) is a function whose DOMAIN is its set of keys.                    *)
(***************************************************************************)
EXTENDS Integers, Sequences, FiniteSets, TLC

\* ------------------------------------------------------------------ bounds
MaxAlerts == 2        \* entries of `alerts` in the batch configurations
MaxTemplateLen == 3   \* tokens of an enumerated query_template
MaxRuns == 2          \* successive runs of main over the same configuration

\* ------------------------------------------------------------- exceptions
Raise(type, text) == [ok |-> FALSE, type |-> type, text |-> text]

Return(val) == [ok |-> TRUE, val |-> val]

\* d[k] of a Python dict: the value, or KeyError(k)
GetItem(d, k) == IF k \in DOMAIN d THEN Return(d[k]) ELSE Raise("KeyError", <<"'", k, "'">>)

\* d.get(k, default)
Get(d, k, default) == IF k \in DOMAIN d THEN d[k] ELSE default

\* str(bool)
str(b) == IF b THEN <<"True">> ELSE <<"False">>

\* str.lower on the tokens str(bool) produces
lower(s) == [i \in 1..Len(s) |-> IF s[i] = "True" THEN "true" ELSE IF s[i] = "False" THEN "false" ELSE s[i]]

\* str.replace(old, new) for a one-character `old`, from position i on
RECURSIVE ReplaceFrom(_, _, _, _, _)
ReplaceFrom(s, i, old, new, out) ==
  IF i > Len(s) THEN out
  ELSE ReplaceFrom(s, i + 1, old, new, IF s[i] = old THEN out \o new ELSE Append(out, s[i]))

replace(s, old, new) == ReplaceFrom(s, 1, old, new, <<>>)

\* "sep".join(parts)
RECURSIVE join(_, _)
join(sep, parts) ==
  IF parts = <<>> THEN <<>>
  ELSE IF Len(parts) = 1 THEN parts[1]
  ELSE parts[1] \o sep \o join(sep, Tail(parts))

\* ------------------------------------------------------------- str.format
\* Position of the "}" that ends the replacement field whose name starts at
\* i; 0 when the text ends first, -1 when a "{" appears in the field name.
RECURSIVE FieldEnd(_, _)
FieldEnd(t, i) ==
  IF i > Len(t) THEN 0
  ELSE IF t[i] = "}" THEN i
  ELSE IF t[i] = "{" THEN -1
  ELSE FieldEnd(t, i + 1)

\* The value of the replacement field `name`: a keyword argument, else
\* IndexError for the empty (auto-numbered) name, else KeyError.
FieldValue(name, kwargs) ==
  IF name = <<>> THEN Raise("IndexError", <<"Replacement index 0 out of range for positional args tuple">>)
  ELSE IF Len(name) = 1 /\ name[1] \in DOMAIN kwargs THEN Return(kwargs[name[1]])
  ELSE Raise("KeyError", <<"'">> \o name \o <<"'">>)

\* The scan of str.format from position i on, `out` being the text produced
\* so far: "{{" and "}}" are literal braces, "{name}" is replaced by
\* kwargs[name], any other use of a brace raises.
RECURSIVE FormatFrom(_, _, _, _)
FormatFrom(t, i, kwargs, out) ==
  IF i > Len(t) THEN Return(out)
  ELSE IF t[i] = "}" THEN
    IF i = Len(t) \/ t[i + 1] # "}"
    THEN Raise("ValueError", <<"Single '}' encountered in format string">>)
    ELSE FormatFrom(t, i + 2, kwargs, Append(out, "}"))
  ELSE IF t[i] = "{" THEN
    IF i = Len(t) THEN Raise("ValueError", <<"Single '{' encountered in format string">>)
    ELSE IF t[i + 1] = "{" THEN FormatFrom(t, i + 2, kwargs, Append(out, "{"))
    ELSE IF FieldEnd(t, i + 1) = -1 THEN Raise("ValueError", <<"unexpected '{' in field name">>)
    ELSE IF FieldEnd(t, i + 1) = 0 THEN Raise("ValueError", <<"expected '}' before end of string">>)
    ELSE IF FieldValue(SubSeq(t, i + 1, FieldEnd(t, i + 1) - 1), kwargs).ok
      THEN FormatFrom(t, FieldEnd(t, i + 1) + 1, kwargs,
                      out \o FieldValue(SubSeq(t, i + 1, FieldEnd(t, i + 1) - 1), kwargs).val)
      ELSE FieldValue(SubSeq(t, i + 1, FieldEnd(t, i + 1) - 1), kwargs)
  ELSE FormatFrom(t, i + 1, kwargs, Append(out, t[i]))

\* t.format(**kwargs)
format(t, kwargs) == FormatFrom(t, 1, kwargs, <<>>)

\* ------------------------------------------------------ generate_alert_sql
\* The subscriptions d[k] of `subs`, evaluated in order: the first absent key
\* raises KeyError.
Subscripts(subs) ==
  IF \A i \in 1..Len(subs) : subs[i][2] \in DOMAIN subs[i][1] THEN Return(<<>>)
  ELSE LET first == CHOOSE i \in 1..Len(subs) :
                      /\ subs[i][2] \notin DOMAIN subs[i][1]
                      /\ \A j \in 1..(i - 1) : subs[j][2] \in DOMAIN subs[j][1]
       IN GetItem(subs[first][1], subs[first][2])

DefaultCron == <<"0 0 10 1/7 * ?">>

DefaultEmptyResultState == <<"UNKNOWN">>

cron_schedule_global_first(alert_config, global_config) ==
  Get(global_config, "cron_schedule", Get(alert_config, "cron_schedule", DefaultCron))

\* the cron_schedule argument
cron_schedule(alert_config, global_config) ==
  Get(alert_config, "cron_schedule", Get(global_config, "cron_schedule", DefaultCron))

empty_result_state_global_fallback(alert_config, global_config) ==
  Get(alert_config, "empty_result_state", Get(global_config, "empty_result_state", DefaultEmptyResultState))

\* the empty_result_state argument (global_config is not consulted)
empty_result_state(alert_config, global_config) ==
  Get(alert_config, "empty_result_state", DefaultEmptyResultState)

escape_none(query_text) == query_text

\* query_text.replace("'", "''")
escape(query_text) == replace(query_text, "'", <<"'", "'">>)

\* the f-string of generate_alert_sql, all its fields present
Statement(a, g, query_text) ==
  <<"-- ">> \o a.description \o <<"\n",
    "SELECT create_alert(", "\n",
    "  display_name => '">> \o a.display_name \o <<"',", "\n",
    "  query_text => '">> \o escape(query_text) \o <<"',", "\n",
    "  warehouse_id => ">> \o g.warehouse_id \o <<",", "\n",
    "  comparison_operator => '">> \o a.comparison_operator \o <<"',", "\n",
    "  threshold_value => ">> \o a.threshold_value \o <<",", "\n",
    "  empty_result_state => '">> \o empty_result_state(a, g) \o <<"',", "\n",
    "  user_email => ">> \o g.user_email \o <<",", "\n",
    "  notify_on_ok => ">> \o lower(str(g.notify_on_ok)) \o <<",", "\n",
    "  retrigger_seconds => ">> \o g.retrigger_seconds \o <<",", "\n",
    "  cron_schedule => '">> \o cron_schedule(a, g) \o <<"',", "\n",
    "  timezone_id => '">> \o g.timezone_id \o <<"',", "\n",
    "  pause_status => '">> \o g.pause_status \o <<"'", "\n",
    ") as alert;">>

\* the statement once the template is formatted: the f-string, or the
\* KeyError of its first absent field
Render(a, g, query_text) ==
  IF ~query_text.ok THEN query_text
  ELSE IF ~Subscripts(<< <<a, "description">>, <<a, "display_name">>,
                         <<g, "warehouse_id">>, <<a, "comparison_operator">>,
                         <<a, "threshold_value">>, <<g, "user_email">>,
                         <<g, "notify_on_ok">>, <<g, "retrigger_seconds">>,
                         <<g, "timezone_id">>, <<g, "pause_status">> >>).ok
  THEN Subscripts(<< <<a, "description">>, <<a, "display_name">>,
                     <<g, "warehouse_id">>, <<a, "comparison_operator">>,
                     <<a, "threshold_value">>, <<g, "user_email">>,
                     <<g, "notify_on_ok">>, <<g, "retrigger_seconds">>,
                     <<g, "timezone_id">>, <<g, "pause_status">> >>)
  ELSE Return(Statement(a, g, query_text.val))

generate_alert_sql(alert_config, global_config) ==
  IF ~Subscripts(<< <<alert_config, "query_template">>, <<global_config, "catalog">>,
                    <<global_config, "schema">> >>).ok
  THEN Subscripts(<< <<alert_config, "query_template">>, <<global_config, "catalog">>,
                     <<global_config, "schema">> >>)
  ELSE CHOOSE sql \in {Render(alert_config, global_config, query_text) :
                         query_text \in {format(alert_config.query_template,
                                                [catalog |-> global_config.catalog,
                                                 schema |-> global_config.schema])}} : TRUE

\* ------------------------------------------------------------ the inputs
\* (k :> v) added to, or replacing k in, the mapping d
With(d, k, v) == (k :> v) @@ d

\* the mapping d without the key k
Without(d, k) == [x \in DOMAIN d \ {k} |-> d[x]]

\* all token sequences of at most n tokens of S
SeqsUpTo(S, n) == UNION {[1..k -> S] : k \in 0..n}

\* the global section of the scenario of the specification
BaseGlobal ==
  [catalog |-> <<"sec">>, schema |-> <<"detect">>, warehouse_id |-> <<"123">>,
   user_email |-> <<"a@b.com">>, notify_on_ok |-> TRUE, retrigger_seconds |-> <<"600">>,
   timezone_id |-> <<"UTC">>, pause_status |-> <<"UNPAUSED">>]

GlobalCron == <<"0 0 8 * * ?">>

RuleCron == <<"0 0 6 * * ?">>

GlobalChoices ==
  {BaseGlobal,
   With(BaseGlobal, "cron_schedule", GlobalCron),
   With(BaseGlobal, "empty_result_state", <<"ERROR">>),
   With(With(BaseGlobal, "cron_schedule", GlobalCron), "empty_result_state", <<"ERROR">>),
   With(BaseGlobal, "notify_on_ok", FALSE),
   Without(BaseGlobal, "pause_status"),
   Without(BaseGlobal, "catalog")}

ScenarioTemplate == <<"SELECT * FROM ", "{", "catalog", "}", ".", "{", "schema", "}", ".t">>

RequiredFields == {"query_template", "description", "display_name", "comparison_operator", "threshold_value"}

\* the i-th configured rule with every required field
BaseRule(i, template) ==
  [description |-> <<"d" \o ToString(i)>>, display_name |-> <<"n" \o ToString(i)>>,
   query_template |-> template, comparison_operator |-> <<">">>, threshold_value |-> <<"5">>]

\* the rules a batch configuration is made of, for position i
RuleChoices(i) ==
  {BaseRule(i, ScenarioTemplate),
   With(BaseRule(i, ScenarioTemplate), "cron_schedule", RuleCron),
   With(BaseRule(i, ScenarioTemplate), "empty_result_state", <<"OK">>),
   With(With(BaseRule(i, ScenarioTemplate), "cron_schedule", RuleCron), "empty_result_state", <<"OK">>),
   BaseRule(i, <<"x", "'", "x">>),
   BaseRule(i, <<"{", "x", "}">>)}
  \cup {Without(BaseRule(i, ScenarioTemplate), k) : k \in RequiredFields}

\* the ordered mapping name -> rule, as the sequence of its items
Item(i, rule) == [name |-> "a" \o ToString(i), config |-> rule]

RECURSIVE AlertMapsOfLen(_)
AlertMapsOfLen(k) ==
  IF k = 0 THEN {<<>>}
  ELSE {Append(m, Item(k, r)) : m \in AlertMapsOfLen(k - 1), r \in RuleChoices(k)}

AlertMaps(n) == UNION {AlertMapsOfLen(k) : k \in 0..n}

TemplateAlphabet == {"x", "'", "{", "}", "catalog", "schema"}

Templates ==
  SeqsUpTo(TemplateAlphabet, MaxTemplateLen)
    \cup {ScenarioTemplate, <<"{", "catalog", "}", "'", "{", "{", "x", "}", "}">>,
          <<"{", "schema", "}", "{", "catalog", "}", "'">>}

CatalogValues == {<<"sec">>, <<"o", "'", "r">>, <<"{", "schema", "}">>}

SchemaValues == {<<"detect">>, <<"'">>}

Doc(g, alerts) == [global |-> g, alerts |-> alerts]

\* rules.yml: absent, unreadable, not valid YAML, or a parsed document
File(kind, doc) == [kind |-> kind, doc |-> doc]

NoDoc == [k \in {} |-> k]

BatchDocs == {Doc(g, al) : g \in GlobalChoices, al \in AlertMaps(MaxAlerts)}

TemplateDocs ==
  {Doc(With(With(BaseGlobal, "catalog", c), "schema", sc), <<Item(1, BaseRule(1, t))>>) :
     c \in CatalogValues, sc \in SchemaValues, t \in Templates}

EnvDocs ==
  {Doc(BaseGlobal, <<>>),
   Doc(BaseGlobal, <<Item(1, BaseRule(1, ScenarioTemplate)), Item(2, BaseRule(2, ScenarioTemplate))>>),
   Doc(BaseGlobal, <<Item(1, BaseRule(1, ScenarioTemplate)), Item(2, Without(BaseRule(2, ScenarioTemplate), "description"))>>),
   [global |-> BaseGlobal],
   [alerts |-> <<>>]}

RulesFiles == {File("missing", NoDoc), File("denied", NoDoc), File("invalid", NoDoc)}
                \cup {File("ok", d) : d \in EnvDocs}

NoFile == [exists |-> FALSE, data |-> <<>>]

OldFile == [exists |-> TRUE, data |-> <<"-- stale", "\n">>]

\* the directory src/ and the disk: usable, src/ absent, not writable, or full
OutEnvs == {"ok", "nodir", "denied", "diskfull"}

\* -------------------------------------------------------------- the state
VARIABLES
  rulesFile,    \* rules.yml in the working directory
  outEnv,       \* the state of src/ and of the disk
  outFile,      \* src/generated_alerts.sql
  pc,           \* the position of main
  rules,        \* main: rules
  sql_parts,    \* generate_all_alerts_sql: sql_parts
  idx,          \* generate_all_alerts_sql: items of `alerts` iterated so far
  sql_content,  \* main: sql_content
  f,            \* main: the output file object: "unbound", "open", "closed"
  exc,          \* the exception in flight, or Return(<<>>) when none
  console,      \* the lines printed by this run
  runs,         \* the runs of main started so far
  written       \* the contents each completed write left in the output file

vars == <<rulesFile, outEnv, outFile, pc, rules, sql_parts, idx, sql_content, f, exc, console, runs, written>>

NoExc == Return(<<>>)

Init ==
  /\ \/ /\ rulesFile \in RulesFiles
        /\ outEnv \in OutEnvs
        /\ outFile \in IF outEnv = "nodir" THEN {NoFile} ELSE {NoFile, OldFile}
     \/ /\ rulesFile \in {File("ok", d) : d \in BatchDocs}
        /\ outEnv = "ok"
        /\ outFile \in {NoFile, OldFile}
     \/ /\ rulesFile \in {File("ok", d) : d \in TemplateDocs}
        /\ outEnv = "ok"
        /\ outFile = NoFile
  /\ pc = "load"
  /\ rules = NoDoc
  /\ sql_parts = <<>>
  /\ idx = 0
  /\ sql_content = <<>>
  /\ f = "unbound"
  /\ exc = NoExc
  /\ console = <<>>
  /\ runs = 1
  /\ written = <<>>

\* ------------------------------------------------------------- load_rules
load_rules_empty(file) == Return(NoDoc)

\* open(rules_file, 'r') and yaml.safe_load
load_rules(file) ==
  IF file.kind = "missing" THEN Raise("FileNotFoundError", <<"[Errno 2] No such file or directory: 'rules.yml'">>)
  ELSE IF file.kind = "denied" THEN Raise("PermissionError", <<"[Errno 13] Permission denied: 'rules.yml'">>)
  ELSE IF file.kind = "invalid" THEN Raise("YAMLError", <<"while parsing">>)
  ELSE Return(file.doc)

\* main: rules = load_rules()
LoadRules ==
  /\ pc = "load"
  /\ LET r == load_rules(rulesFile) IN
       IF r.ok
       THEN /\ rules' = r.val
            /\ pc' = "generate"
            /\ exc' = exc
       ELSE /\ exc' = r
            /\ pc' = "except"
            /\ rules' = rules
  /\ UNCHANGED <<rulesFile, outEnv, outFile, sql_parts, idx, sql_content, f, console, runs, written>>

\* ------------------------------------------------ generate_all_alerts_sql
Header == <<"-- Databricks Security Detection Alerts">>

GeneratedFrom == <<"-- Generated from rules.yml">>

Marker == <<"-- COMMAND ----------">>

items_reversed(alerts) == [i \in 1..Len(alerts) |-> alerts[Len(alerts) + 1 - i]]

items_but_last(alerts) == SubSeq(alerts, 1, Len(alerts) - 1)

\* alerts.items(): the items in insertion order
items(alerts) == alerts

\* the entry of generate_all_alerts_sql, up to the loop
GenerateBegin ==
  /\ pc = "generate"
  /\ LET r == Subscripts(<< <<rules, "global">>, <<rules, "alerts">> >>) IN
       IF r.ok
       THEN /\ sql_parts' = <<Header, GeneratedFrom, <<>>, Marker, <<>>>>
            /\ idx' = 0
            /\ pc' = "loop"
            /\ exc' = exc
       ELSE /\ exc' = r
            /\ pc' = "except"
            /\ UNCHANGED <<sql_parts, idx>>
  /\ UNCHANGED <<rulesFile, outEnv, outFile, rules, sql_content, f, console, runs, written>>

loop_body_isolated(parts, r) == IF r.ok THEN Return(parts \o <<r.val, <<>>, Marker, <<>>>>) ELSE Return(parts)

\* one iteration: the four appends, or the exception of generate_alert_sql
loop_body(parts, r) == IF r.ok THEN Return(parts \o <<r.val, <<>>, Marker, <<>>>>) ELSE r

\* for alert_name, alert_config in alerts.items(): one iteration
GenerateLoop ==
  /\ pc = "loop"
  /\ idx < Len(items(rules.alerts))
  /\ \E item \in {items(rules.alerts)[idx + 1]} :
       \E sql \in {generate_alert_sql(item.config, rules.global)} :
       \E r \in {loop_body(sql_parts, sql)} :
         IF r.ok
         THEN /\ sql_parts' = r.val
              /\ idx' = idx + 1
              /\ UNCHANGED <<pc, exc>>
         ELSE /\ exc' = r
              /\ pc' = "except"
              /\ UNCHANGED <<sql_parts, idx>>
  /\ UNCHANGED <<rulesFile, outEnv, outFile, rules, sql_content, f, console, runs, written>>

\* return "\n".join(sql_parts), assigned to sql_content by main
GenerateReturn ==
  /\ pc = "loop"
  /\ idx >= Len(items(rules.alerts))
  /\ sql_content' = join(<<"\n">>, sql_parts)
  /\ pc' = "open"
  /\ UNCHANGED <<rulesFile, outEnv, outFile, rules, sql_parts, idx, f, exc, console, runs, written>>

\* ------------------------------------------------------------------- main
OutputPath == "src/generated_alerts.sql"

open_a(file) == [exists |-> TRUE, data |-> file.data]

\* open(output_file, 'w'): the file is created or truncated
open_w(file) == [exists |-> TRUE, data |-> <<>>]

write_partial(file, content) == [exists |-> TRUE, data |-> file.data \o SubSeq(content, 1, Len(content) - 1)]

\* f.write(sql_content) and the close at the end of the with block
write(file, content) == [exists |-> TRUE, data |-> file.data \o content]

\* with open(output_file, 'w') as f: the open
OpenOutput ==
  /\ pc = "open"
  /\ IF outEnv = "nodir"
     THEN /\ exc' = Raise("FileNotFoundError", <<"[Errno 2] No such file or directory: '", OutputPath, "'">>)
          /\ pc' = "except"
          /\ UNCHANGED <<outFile, f>>
     ELSE IF outEnv = "denied"
     THEN /\ exc' = Raise("PermissionError", <<"[Errno 13] Permission denied: '", OutputPath, "'">>)
          /\ pc' = "except"
          /\ UNCHANGED <<outFile, f>>
     ELSE /\ outFile' = open_w(outFile)
          /\ f' = "open"
          /\ pc' = "write"
          /\ exc' = exc
  /\ UNCHANGED <<rulesFile, outEnv, rules, sql_parts, idx, sql_content, console, runs, written>>

\* f.write(sql_content) and leaving the with block; on a full disk some
\* proper prefix of the text reaches the file and OSError is raised
WriteOutput ==
  /\ pc = "write"
  /\ f' = "closed"
  /\ IF outEnv = "diskfull"
     THEN /\ \E n \in 0..(Len(sql_content) - 1) :
               outFile' = write(outFile, SubSeq(sql_content, 1, n))
          /\ exc' = Raise("OSError", <<"[Errno 28] No space left on device">>)
          /\ pc' = "except"
          /\ UNCHANGED written
     ELSE /\ outFile' = write(outFile, sql_content)
          /\ written' = Append(written, outFile'.data)
          /\ pc' = "report"
          /\ exc' = exc
  /\ UNCHANGED <<rulesFile, outEnv, rules, sql_parts, idx, sql_content, console, runs>>

SuccessLine == <<"Generated alerts SQL: ", OutputPath>>

CountLine(n) == <<"Total alerts generated: ", ToString(n)>>

SummaryHeader == <<"\n", "Alert Summary:">>

SummaryLine(config) == <<"  - ">> \o config.display_name \o <<": ">> \o config.description

ThresholdLine(config) == <<"    Threshold: ">> \o config.comparison_operator \o <<" ">> \o config.threshold_value

MissingFileLine == <<"Error: rules.yml not found. Please ensure the file exists in the current directory.">>

ParseErrorLine(e) == <<"Error parsing YAML: ">> \o e.text

UnexpectedErrorLine(e) == <<"Unexpected error: ">> \o e.text

\* the three prints after the write
ReportSuccess ==
  /\ pc = "report"
  /\ console' = console \o <<SuccessLine, CountLine(Len(rules.alerts)), SummaryHeader>>
  /\ idx' = 0
  /\ pc' = "summary"
  /\ UNCHANGED <<rulesFile, outEnv, outFile, rules, sql_parts, sql_content, f, exc, runs, written>>

\* for alert_name, config in rules['alerts'].items(): the two prints
SummaryLoop ==
  /\ pc = "summary"
  /\ idx < Len(items(rules.alerts))
  /\ LET config == items(rules.alerts)[idx + 1].config
         first == Subscripts(<< <<config, "display_name">>, <<config, "description">> >>)
         second == Subscripts(<< <<config, "comparison_operator">>, <<config, "threshold_value">> >>)
     IN IF ~first.ok
        THEN /\ exc' = first
             /\ pc' = "except"
             /\ UNCHANGED <<console, idx>>
        ELSE IF ~second.ok
        THEN /\ console' = Append(console, SummaryLine(config))
             /\ exc' = second
             /\ pc' = "except"
             /\ idx' = idx
        ELSE /\ console' = console \o <<SummaryLine(config), ThresholdLine(config)>>
             /\ idx' = idx + 1
             /\ UNCHANGED <<pc, exc>>
  /\ UNCHANGED <<rulesFile, outEnv, outFile, rules, sql_parts, sql_content, f, runs, written>>

\* the summary loop is exhausted: main returns
SummaryEnd ==
  /\ pc = "summary"
  /\ idx >= Len(items(rules.alerts))
  /\ pc' = "done"
  /\ UNCHANGED <<rulesFile, outEnv, outFile, rules, sql_parts, idx, sql_content, f, exc, console, runs, written>>

\* the classes an exception type is an instance of
Classes(type) ==
  {type, "Exception"}
    \cup (IF type \in {"FileNotFoundError", "PermissionError"} THEN {"OSError"} ELSE {})
    \cup (IF type \in {"KeyError", "IndexError"} THEN {"LookupError"} ELSE {})

\* the except clause of main that catches an exception of this type
except_clause(type) ==
  IF "FileNotFoundError" \in Classes(type) THEN "FileNotFoundError"
  ELSE IF "YAMLError" \in Classes(type) THEN "YAMLError"
  ELSE "Exception"

ExceptFileNotFound ==
  /\ pc = "except"
  /\ except_clause(exc.type) = "FileNotFoundError"
  /\ console' = Append(console, MissingFileLine)
  /\ exc' = NoExc
  /\ pc' = "done"
  /\ UNCHANGED <<rulesFile, outEnv, outFile, rules, sql_parts, idx, sql_content, f, runs, written>>

ExceptYAMLError ==
  /\ pc = "except"
  /\ except_clause(exc.type) = "YAMLError"
  /\ console' = Append(console, ParseErrorLine(exc))
  /\ exc' = NoExc
  /\ pc' = "done"
  /\ UNCHANGED <<rulesFile, outEnv, outFile, rules, sql_parts, idx, sql_content, f, runs, written>>

ExceptException ==
  /\ pc = "except"
  /\ except_clause(exc.type) = "Exception"
  /\ console' = Append(console, UnexpectedErrorLine(exc))
  /\ exc' = NoExc
  /\ pc' = "done"
  /\ UNCHANGED <<rulesFile, outEnv, outFile, rules, sql_parts, idx, sql_content, f, runs, written>>

\* the generator is run again over the same configuration and file system
Rerun ==
  /\ pc = "done"
  /\ runs < MaxRuns
  /\ runs' = runs + 1
  /\ pc' = "load"
  /\ rules' = NoDoc
  /\ sql_parts' = <<>>
  /\ idx' = 0
  /\ sql_content' = <<>>
  /\ f' = "unbound"
  /\ console' = <<>>
  /\ UNCHANGED <<rulesFile, outEnv, outFile, exc, written>>

Next ==
  \/ LoadRules
  \/ GenerateBegin
  \/ GenerateLoop
  \/ GenerateReturn
  \/ OpenOutput
  \/ WriteOutput
  \/ ReportSuccess
  \/ SummaryLoop
  \/ SummaryEnd
  \/ ExceptFileNotFound
  \/ ExceptYAMLError
  \/ ExceptException
  \/ Rerun

Spec == Init /\ [][Next]_vars

\* main is one thread that runs to completion: a step that can be taken is taken
FairSpec == Spec /\ WF_vars(Next)

\* ------------------------------------------------- reading texts and runs
\* the positions of a token in a text
Positions(text, tok) == {i \in 1..Len(text) : text[i] = tok}

\* the k-th smallest element of a set of positions
Nth(S, k) == CHOOSE p \in S : Cardinality({q \in S : q <= p}) = k

\* the tokens after the first `open` at or after position p, up to the next `close`
Between(text, p, open, close) ==
  LET i == Nth({j \in Positions(text, open) : j >= p}, 1)
      j == Nth({j \in Positions(text, close) : j > i}, 1)
  IN SubSeq(text, i + 1, j - 1)

\* rules.yml holds a document with both top-level keys
ValidDoc == rulesFile.kind = "ok" /\ {"global", "alerts"} \subseteq DOMAIN rulesFile.doc

ConfiguredAlerts == rulesFile.doc.alerts

ConfiguredGlobal == rulesFile.doc.global

\* the statements appended to sql_parts so far: the parts 6, 10, 14, ...
Rendered ==
  IF ValidDoc THEN {k \in 1..Len(ConfiguredAlerts) : 4 * k + 2 <= Len(sql_parts)} ELSE {}

StatementOf(k) == sql_parts[4 * k + 2]

Printed(line) == \E i \in 1..Len(console) : console[i] = line

ErrorLines == {i \in 1..Len(console) : console[i][1] \in {MissingFileLine[1], "Error parsing YAML: ", "Unexpected error: "}}

SuccessLines == {i \in 1..Len(console) : console[i] = SuccessLine}

\* some configured rule cannot be rendered
RenderFails ==
  /\ ValidDoc
  /\ \E k \in 1..Len(ConfiguredAlerts) : ~generate_alert_sql(ConfiguredAlerts[k].config, ConfiguredGlobal).ok

\* ------------------------------------------------------------------ claims
\* C1: the returned document holds exactly one `SELECT create_alert(`
\* statement per entry of `alerts`, none when `alerts` is empty.
C1_StatementCount ==
  sql_content # <<>> =>
    Cardinality(Positions(sql_content, "SELECT create_alert(")) = Len(ConfiguredAlerts)

C1_Witness == sql_content # <<>> /\ Len(ConfiguredAlerts) = 2 /\ pc = "open"

\* the template with each exact {catalog} and {schema} placeholder replaced
\* and every other token kept
RECURSIVE Substituted(_, _, _)
Substituted(t, c, s) ==
  IF t = <<>> THEN <<>>
  ELSE IF Len(t) >= 3 /\ t[1] = "{" /\ t[2] = "catalog" /\ t[3] = "}"
    THEN c \o Substituted(SubSeq(t, 4, Len(t)), c, s)
  ELSE IF Len(t) >= 3 /\ t[1] = "{" /\ t[2] = "schema" /\ t[3] = "}"
    THEN s \o Substituted(SubSeq(t, 4, Len(t)), c, s)
  ELSE <<t[1]>> \o Substituted(Tail(t), c, s)

\* every single quote of the text doubled
RECURSIVE Doubled(_)
Doubled(t) ==
  IF t = <<>> THEN <<>>
  ELSE (IF t[1] = "'" THEN <<"'", "'">> ELSE <<t[1]>>) \o Doubled(Tail(t))

QueryTextOf(stmt) == Between(stmt, 1, "  query_text => '", "',")

ExpectedQueryText(k) ==
  Doubled(Substituted(ConfiguredAlerts[k].config.query_template,
                      ConfiguredGlobal.catalog, ConfiguredGlobal.schema))

\* every brace of the template belongs to an exact {catalog} or {schema} placeholder
PlaceholdersOnly(t) == LET rest == Substituted(t, <<>>, <<>>) IN
  \A i \in 1..Len(rest) : rest[i] \notin {"{", "}"}

\* C2 as stated: for every query_template the embedded query_text is the
\* template with the placeholders replaced and the single quotes doubled,
\* nothing else changed.
C2_Original ==
  \A k \in Rendered : QueryTextOf(StatementOf(k)) = ExpectedQueryText(k)

\* C2 amended: for every query_template whose braces all belong to exact
\* {catalog} or {schema} placeholders, the embedded query_text is the
\* template with the placeholders replaced and then the single quotes
\* doubled, nothing else changed.
C2_PlaceholderTemplates ==
  \A k \in Rendered :
    PlaceholdersOnly(ConfiguredAlerts[k].config.query_template) =>
      QueryTextOf(StatementOf(k)) = ExpectedQueryText(k)

C2_Witness ==
  /\ 1 \in Rendered
  /\ ConfiguredAlerts[1].config.query_template = <<"{", "schema", "}", "{", "catalog", "}", "'">>
  /\ ConfiguredGlobal.catalog = <<"o", "'", "r">>
  /\ QueryTextOf(StatementOf(1)) = <<"detect", "o", "'", "'", "r", "'", "'">>

\* C3: the cron_schedule argument is the rule's value, else the global
\* value, else 0 0 10 1/7 * ?.
C3_CronResolution ==
  \A k \in Rendered :
    LET rule == ConfiguredAlerts[k].config
        emitted == Between(StatementOf(k), 1, "  cron_schedule => '", "',")
    IN emitted = IF "cron_schedule" \in DOMAIN rule THEN rule.cron_schedule
                 ELSE IF "cron_schedule" \in DOMAIN ConfiguredGlobal THEN ConfiguredGlobal.cron_schedule
                 ELSE <<"0 0 10 1/7 * ?">>

C3_Witness ==
  /\ 2 \in Rendered
  /\ "cron_schedule" \in DOMAIN ConfiguredGlobal
  /\ "cron_schedule" \in DOMAIN ConfiguredAlerts[1].config
  /\ "cron_schedule" \notin DOMAIN ConfiguredAlerts[2].config
  /\ ConfiguredAlerts[1].config.cron_schedule # ConfiguredGlobal.cron_schedule

\* C4: when some rule cannot be rendered the run fails without opening or
\* writing the output file, wherever the failing rule stands.
C4_NoPartialOutput ==
  /\ [](RenderFails => f = "unbound" /\ written = <<>> /\ SuccessLines = {})
  /\ [][RenderFails => outFile' = outFile]_vars

C4_Witness ==
  /\ RenderFails
  /\ pc = "done"
  /\ 1 \in Rendered
  /\ ErrorLines # {}
  /\ outFile = OldFile

\* C5: with rules.yml missing, main prints the missing-file message and
\* nothing else, leaves the output file alone and returns.
C5_MissingConfig ==
  /\ [](rulesFile.kind = "missing" /\ pc = "done" =>
          console = <<MissingFileLine>> /\ f = "unbound" /\ exc = NoExc)
  /\ [][rulesFile.kind = "missing" => outFile' = outFile]_vars

C5_Witness == rulesFile.kind = "missing" /\ pc = "done" /\ runs = 2 /\ outFile = OldFile

\* C6: the missing-file message is printed exactly when rules.yml is
\* missing, the parse-error message for invalid YAML, and every other
\* failure, the output file's included, through the generic message.
C6_MessagePerClass ==
  pc = "done" =>
    /\ Printed(MissingFileLine) <=> rulesFile.kind = "missing"
    /\ rulesFile.kind = "invalid" => \E i \in ErrorLines : console[i][1] = "Error parsing YAML: "
    /\ (sql_content # <<>> /\ outEnv # "ok") => \E i \in ErrorLines : console[i][1] = "Unexpected error: "

\* C7: successive runs over the same configuration leave the same bytes in
\* the output file, whatever it held before.
C7_SameOutput ==
  /\ \A i, j \in DOMAIN written : written[i] = written[j]
  /\ (pc \in {"report", "summary"} => outFile.data = written[Len(written)])

C7_Witness == Len(written) = 2 /\ Len(ConfiguredAlerts) >= 1 /\ pc = "done"

\* C8: the document starts with the two header lines, its statements follow
\* the insertion order of `alerts`, and exactly one marker line lies between
\* two consecutive statements.
C8_OrderAndSeparators ==
  sql_content # <<>> =>
    LET P == Positions(sql_content, "SELECT create_alert(")
        M == {m \in Positions(sql_content, Marker[1]) :
                m > 1 /\ m < Len(sql_content) /\ sql_content[m - 1] = "\n" /\ sql_content[m + 1] = "\n"}
    IN /\ SubSeq(sql_content, 1, 4) = <<Header[1], "\n", GeneratedFrom[1], "\n">>
       /\ \A k \in 1..Cardinality(P) :
            /\ k <= Len(ConfiguredAlerts)
            /\ Between(sql_content, Nth(P, k), "  display_name => '", "',")
                 = ConfiguredAlerts[k].config.display_name
       /\ \A k \in 1..(Cardinality(P) - 1) :
            Cardinality({m \in M : Nth(P, k) < m /\ m < Nth(P, k + 1)}) = 1

C8_Witness ==
  /\ sql_content # <<>>
  /\ Cardinality(Positions(sql_content, "SELECT create_alert(")) = 2
  /\ pc = "done"

\* C9: the empty_result_state argument is the rule's value, else UNKNOWN;
\* the global section has no say.
C9_EmptyResultState ==
  \A k \in Rendered :
    LET rule == ConfiguredAlerts[k].config
        emitted == Between(StatementOf(k), 1, "  empty_result_state => '", "',")
    IN emitted = IF "empty_result_state" \in DOMAIN rule THEN rule.empty_result_state
                 ELSE <<"UNKNOWN">>

C9_Witness ==
  /\ 2 \in Rendered
  /\ "empty_result_state" \in DOMAIN ConfiguredGlobal
  /\ "empty_result_state" \in DOMAIN ConfiguredAlerts[1].config
  /\ "empty_result_state" \notin DOMAIN ConfiguredAlerts[2].config

Rank(p) ==
  CASE p = "load" -> 1 [] p = "generate" -> 2 [] p = "loop" -> 3 [] p = "open" -> 4
    [] p = "write" -> 5 [] p = "report" -> 6 [] p = "summary" -> 7 [] p = "except" -> 8
    [] p = "done" -> 9

\* C10: every run ends; its steps go load, render, write, report, none
\* twice; the success line follows the complete write; a finished run has
\* printed exactly one outcome.
C10_RunOrder ==
  /\ [](/\ SuccessLines # {} => f = "closed" /\ outFile.exists /\ outFile.data = sql_content
        /\ Cardinality(SuccessLines) + Cardinality(ErrorLines) <= 1
        /\ pc = "done" => /\ Cardinality(SuccessLines) + Cardinality(ErrorLines) = 1
                          /\ SuccessLines # {} => Len(console) = 3 + 2 * Len(ConfiguredAlerts))
  /\ [][pc' # pc => Rank(pc') > Rank(pc) \/ (pc = "done" /\ pc' = "load")]_vars
  /\ (pc # "done") ~> (pc = "done")

C10_Witness == pc = "done" /\ SuccessLines # {} /\ runs = 2 /\ Len(ConfiguredAlerts) = 2

====
